---- MODULE Spec2Model ----
(***************************************************************************)
(* Model of the Plasma front end (plasma/compiler/parser.py):              *)
(* PlasmaTokenizer (regex scanner with an indentation stack) and           *)
(* PlasmaParser (recursive descent with a one-token lookahead and a        *)
(* cursor-restoring two-token peek).                                       *)
(*                                                                         *)
(* Source text is a sequence of one-character strings; the cursor is       *)
(* 0-based as in the source, so code[cursor] of the program is             *)
(* code[cursor + 1] here.                                                  *)
(***************************************************************************)
EXTENDS Integers, Sequences, FiniteSets, TLC

VARIABLES text, code, cursor, indent_levels, line_start, lookahead, peeked, error, tree,
          earlier

vars ==
    <<text, code, cursor, indent_levels, line_start, lookahead, peeked, error, tree, earlier>>

(***************************************************************************)
(* Character classes of the token patterns (re.ASCII).                     *)
(***************************************************************************)
NL == "\n"
TAB == "\t"
SP == " "
DQ == "\""
SQ == "'"
BSL == "\\"

Digit == {"0", "1", "2", "3", "4", "5", "6", "7", "8", "9"}

Lower ==
    {"a", "b", "c", "d", "e", "f", "g", "h", "i", "j", "k", "l", "m",
     "n", "o", "p", "q", "r", "s", "t", "u", "v", "w", "x", "y", "z"}

Upper ==
    {"A", "B", "C", "D", "E", "F", "G", "H", "I", "J", "K", "L", "M",
     "N", "O", "P", "Q", "R", "S", "T", "U", "V", "W", "X", "Y", "Z"}

IdentStart == Lower \cup Upper \cup {"_"}

IdentChar == IdentStart \cup Digit

Blank == {SP, TAB}

\* characters str.rstrip() removes (of those the model's texts can hold)
StripChars == {SP, TAB, NL}

(***************************************************************************)
(* Small helpers on texts.                                                 *)
(***************************************************************************)
\* code[i] with the program's 0-based index; "" when i is out of range
At(s, i) == IF i >= 0 /\ i < Len(s) THEN s[i + 1] ELSE ""

\* code[i:j]
Slice(s, i, j) == SubSeq(s, i + 1, IF j > Len(s) THEN Len(s) ELSE j)

\* does the literal text w occur in s at 0-based offset i
StartsWith(s, i, w) ==
    /\ i + Len(w) <= Len(s)
    /\ \A k \in 1..Len(w) : s[i + k] = w[k]

RECURSIVE RunEnd(_, _, _)
\* end offset of the longest run of characters of class cls starting at i
RunEnd(s, i, cls) ==
    IF i < Len(s) /\ s[i + 1] \in cls THEN RunEnd(s, i + 1, cls) ELSE i

RECURSIVE RStrip(_)
\* str.rstrip()
RStrip(s) ==
    IF Len(s) > 0 /\ s[Len(s)] \in StripChars
    THEN RStrip(SubSeq(s, 1, Len(s) - 1))
    ELSE s

RECURSIVE Concat(_)
\* ''.join(parts)
Concat(parts) ==
    IF parts = <<>> THEN <<>> ELSE Head(parts) \o Concat(Tail(parts))

(***************************************************************************)
(* The token patterns.  Each MatchX(s, i) is the end offset of the match   *)
(* of pattern X anchored at offset i, or -1 when it does not match.        *)
(***************************************************************************)
NoMatch == -1

\* FLOAT  -?\d+\.\d+
MatchFLOAT(s, i) ==
    LET a == IF At(s, i) = "-" THEN i + 1 ELSE i
        b == RunEnd(s, a, Digit)
        c == RunEnd(s, b + 1, Digit)
    IN  IF b > a /\ At(s, b) = "." /\ c > b + 1 THEN c ELSE NoMatch

\* INT  -?\d+
MatchINT(s, i) ==
    LET a == IF At(s, i) = "-" THEN i + 1 ELSE i
        b == RunEnd(s, a, Digit)
    IN  IF b > a THEN b ELSE NoMatch

RECURSIVE QuotedEnd(_, _, _)
\* body and closing quote of  q(?:[^q\\]|\\.)*q  from offset i (after the opening quote)
QuotedEnd(s, i, q) ==
    IF i >= Len(s) THEN NoMatch
    ELSE IF s[i + 1] = q THEN i + 1
    ELSE IF s[i + 1] = BSL
         THEN IF i + 1 < Len(s) /\ s[i + 2] # NL
              THEN QuotedEnd(s, i + 2, q)
              ELSE NoMatch
    ELSE QuotedEnd(s, i + 1, q)

\* STR  "(?:[^"\\]|\\.)*"|'(?:[^'\\]|\\.)*'
MatchSTR(s, i) ==
    IF At(s, i) = DQ THEN QuotedEnd(s, i + 1, DQ)
    ELSE IF At(s, i) = SQ THEN QuotedEnd(s, i + 1, SQ)
    ELSE NoMatch

RECURSIVE MatchWords(_, _, _)
\* an alternation of literal words, tried in order
MatchWords(s, i, words) ==
    IF words = <<>> THEN NoMatch
    ELSE IF StartsWith(s, i, Head(words)) THEN i + Len(Head(words))
    ELSE MatchWords(s, i, Tail(words))

W_true == <<"t", "r", "u", "e">>
W_false == <<"f", "a", "l", "s", "e">>
W_int == <<"i", "n", "t">>
W_float == <<"f", "l", "o", "a", "t">>
W_str == <<"s", "t", "r">>
W_bool == <<"b", "o", "o", "l">>
W_void == <<"v", "o", "i", "d">>
W_if == <<"i", "f">>
W_elif == <<"e", "l", "i", "f">>
W_else == <<"e", "l", "s", "e">>
W_while == <<"w", "h", "i", "l", "e">>
W_for == <<"f", "o", "r">>
W_in == <<"i", "n">>
W_range == <<"r", "a", "n", "g", "e">>
W_return == <<"r", "e", "t", "u", "r", "n">>

\* BOOL  true|false
MatchBOOL(s, i) == MatchWords(s, i, <<W_true, W_false>>)

\* TYPE  int|float|str|bool|void
MatchTYPE(s, i) == MatchWords(s, i, <<W_int, W_float, W_str, W_bool, W_void>>)

\* IF  if
MatchIF(s, i) == MatchWords(s, i, <<W_if>>)

\* RETURN  return
MatchRETURN(s, i) == MatchWords(s, i, <<W_return>>)

\* OPERATOR  [+\-*/]|[=!<>]?=|[<>]
MatchOPERATOR(s, i) ==
    IF At(s, i) \in {"+", "-", "*", "/"} THEN i + 1
    ELSE IF At(s, i) \in {"=", "!", "<", ">"} /\ At(s, i + 1) = "=" THEN i + 2
    ELSE IF At(s, i) = "=" THEN i + 1
    ELSE IF At(s, i) \in {"<", ">"} THEN i + 1
    ELSE NoMatch

\* an identifier pattern without its repetition:  [a-zA-Z_]
MatchIDENTIFIEROneChar(s, i) == IF At(s, i) \in IdentStart THEN i + 1 ELSE NoMatch

\* IDENTIFIER  [a-zA-Z_][a-zA-Z0-9_]*
MatchIDENTIFIER(s, i) ==
    IF At(s, i) \in IdentStart THEN RunEnd(s, i + 1, IdentChar) ELSE NoMatch

\* a one-character pattern
MatchChar(s, i, c) == IF At(s, i) = c THEN i + 1 ELSE NoMatch

\* WHITESPACE  [ \t]+
MatchWHITESPACE(s, i) ==
    IF At(s, i) \in Blank THEN RunEnd(s, i, Blank) ELSE NoMatch

RECURSIVE LineEnd(_, _)
\* end offset of [^\n]* from offset i
LineEnd(s, i) == IF i < Len(s) /\ s[i + 1] # NL THEN LineEnd(s, i + 1) ELSE i

\* COMMENT  //[^\n]*
MatchCOMMENT(s, i) ==
    IF StartsWith(s, i, <<"/", "/">>) THEN LineEnd(s, i + 2) ELSE NoMatch

\* the names of token_patterns, in the order of the alternation
token_patterns ==
    <<"FLOAT", "INT", "STR", "BOOL", "TYPE", "IF", "RETURN", "OPERATOR",
      "IDENTIFIER", "LPAREN", "RPAREN", "COMMA", "COLON", "SEMI", "NEWLINE",
      "WHITESPACE", "COMMENT">>

MatchPattern(name, s, i) ==
    CASE name = "FLOAT" -> MatchFLOAT(s, i)
      [] name = "INT" -> MatchINT(s, i)
      [] name = "STR" -> MatchSTR(s, i)
      [] name = "BOOL" -> MatchBOOL(s, i)
      [] name = "TYPE" -> MatchTYPE(s, i)
      [] name = "IF" -> MatchIF(s, i)
      [] name = "RETURN" -> MatchRETURN(s, i)
      [] name = "OPERATOR" -> MatchOPERATOR(s, i)
      [] name = "IDENTIFIER" -> MatchIDENTIFIER(s, i)
      [] name = "LPAREN" -> MatchChar(s, i, "(")
      [] name = "RPAREN" -> MatchChar(s, i, ")")
      [] name = "COMMA" -> MatchChar(s, i, ",")
      [] name = "COLON" -> MatchChar(s, i, ":")
      [] name = "SEMI" -> MatchChar(s, i, ";")
      [] name = "NEWLINE" -> MatchChar(s, i, NL)
      [] name = "WHITESPACE" -> MatchWHITESPACE(s, i)
      [] name = "COMMENT" -> MatchCOMMENT(s, i)

RECURSIVE FirstMatch(_, _, _)
\* self.regex.match(code, i): the first alternative, from index k on, that matches at i
FirstMatch(s, i, k) ==
    IF k > Len(token_patterns) THEN [name |-> "", end |-> NoMatch]
    ELSE LET e == MatchPattern(token_patterns[k], s, i)
         IN  IF e # NoMatch THEN [name |-> token_patterns[k], end |-> e]
             ELSE FirstMatch(s, i, k + 1)

RegexMatch(s, i) == FirstMatch(s, i, 1)

\* ReservedWords without the words that no keyword pattern matches
ReservedWordsWithPatterns ==
    {W_true, W_false, W_int, W_float, W_str, W_bool, W_void, W_if, W_return}

\* the words the IDENTIFIER branch refuses
ReservedWords ==
    {W_true, W_false, W_int, W_float, W_str, W_bool, W_void, W_if, W_elif,
     W_else, W_while, W_for, W_in, W_range, W_return}

(***************************************************************************)
(* Tokens and errors.                                                      *)
(***************************************************************************)
Token(type, value) == [type |-> type, value |-> value]

\* Python's None where a token is expected
NoneTok == Token("None", <<>>)

\* no exception raised
NoErr == [kind |-> "none", msg |-> "", pos |-> <<>>, what |-> <<>>, expected |-> ""]

\* a raised exception: its class, its message, the position and text it reports
Raise(kind, msg, pos, what) ==
    [kind |-> kind, msg |-> msg, pos |-> pos, what |-> what, expected |-> ""]

\* a parser error: its class, its message, the offending lexeme, the expected kind
RaiseP(kind, msg, what, expected) ==
    [kind |-> kind, msg |-> msg, pos |-> <<>>, what |-> what, expected |-> expected]

\* the tokenizer's mutable fields
TokState(c, levels, ls) == [cursor |-> c, indent_levels |-> levels, line_start |-> ls]

\* outcome of get_next_token: the token returned (or the error raised) and the
\* tokenizer's fields afterwards; again marks `return self.get_next_token()`,
\* the call still to be made on those fields
Returned(tok, st) == [tok |-> tok, st |-> st, err |-> NoErr, again |-> FALSE]

Raised(err, st) == [tok |-> NoneTok, st |-> st, err |-> err, again |-> FALSE]

Recurse(st) == [tok |-> NoneTok, st |-> st, err |-> NoErr, again |-> TRUE]

Top(levels) == levels[Len(levels)]

Pop(levels) == SubSeq(levels, 1, Len(levels) - 1)

\* has_more_tokens
has_more_tokens(s, st) == st.cursor < Len(s)

RECURSIVE IndentWidth(_)
\* len(indent_str.replace('\t', '    '))
IndentWidth(ws) ==
    IF ws = <<>> THEN 0
    ELSE (IF Head(ws) = TAB THEN 4 ELSE 1) + IndentWidth(Tail(ws))

RECURSIVE DedentLoop(_, _)
\* the while loop of the dedent branch: pops levels and says how it ended
DedentLoop(indent_size, levels) ==
    IF indent_size < Top(levels) /\ Len(levels) > 1
    THEN LET popped == Pop(levels)
             current_level == Top(popped)
         IN  IF indent_size < current_level
             THEN [levels |-> popped, outcome |-> "raise"]
             ELSE IF indent_size = current_level
             THEN [levels |-> popped, outcome |-> "dedent"]
             ELSE DedentLoop(indent_size, popped)
    ELSE [levels |-> levels, outcome |-> "exit"]

\* CompareIndent without the multiple-of-4 test on an increase
CompareIndentAnyWidth(indent_size, levels) ==
    IF indent_size > Top(levels)
    THEN [levels |-> Append(levels, indent_size), outcome |-> "indent"]
    ELSE DedentLoop(indent_size, levels)

\* "Compare indent size to current level": the stack afterwards and how the
\* comparison ended (an INDENT, a DEDENT, an exception, or on to the line's tokens)
CompareIndent(indent_size, levels) ==
    LET current_level == Top(levels)
    IN  IF indent_size > current_level
        THEN IF (indent_size - current_level) % 4 # 0
             THEN [levels |-> levels, outcome |-> "bad_indent"]
             ELSE [levels |-> Append(levels, indent_size), outcome |-> "indent"]
        ELSE DedentLoop(indent_size, levels)

\* EndOfInput that returns the DEDENT of an open level without popping it
EndOfInputKeepsLevel(st) ==
    IF Len(st.indent_levels) > 1 THEN Returned(Token("DEDENT", <<>>), st)
    ELSE Returned(NoneTok, st)

\* EndOfInput that signals the end of the stream without the pending DEDENTs
EndOfInputNoDedents(st) == Returned(NoneTok, st)

\* "Handle EOF: emit remaining DEDENTs"
EndOfInput(st) ==
    IF Len(st.indent_levels) > 1
    THEN Returned(Token("DEDENT", <<>>),
                  TokState(st.cursor, Pop(st.indent_levels), st.line_start))
    ELSE Returned(NoneTok, st)

\* the dispatch on the group m that matched at the cursor
Dispatch(s, st, m) ==
    IF m.end = NoMatch
    THEN IF st.cursor < Len(s)
         THEN Raised(Raise("SyntaxError", "Invalid character", <<st.cursor>>,
                           <<At(s, st.cursor)>>), st)
         ELSE Raised(Raise("IndexError", "string index out of range", <<>>, <<>>), st)
    ELSE IF m.name = "NEWLINE"
    THEN Recurse(TokState(m.end, st.indent_levels, TRUE))
    ELSE IF m.name = "WHITESPACE"
    THEN Recurse(TokState(m.end, st.indent_levels, st.line_start))
    ELSE IF m.name = "COMMENT"
    THEN Recurse(TokState(m.end, st.indent_levels, TRUE))
    ELSE IF m.name = "IDENTIFIER" /\ Slice(s, st.cursor, m.end) \in ReservedWords
    THEN Raised(Raise("SyntaxError", "Unexpected keyword",
                      <<st.cursor - (m.end - st.cursor)>>, Slice(s, st.cursor, m.end)), st)
    ELSE Returned(Token(m.name, Slice(s, st.cursor, m.end)),
                  TokState(m.end, st.indent_levels, FALSE))

\* the element of a set of one element: a value computed once, then used
Only(S) == CHOOSE x \in S : TRUE

\* "Match other tokens": the regex match at the cursor and the dispatch on the group
ScanToken(s, st) == Only({Dispatch(s, st, m) : m \in {RegexMatch(s, st.cursor)}})

\* the line's indentation, ending at offset c, compared to the stack with outcome d
Indented(s, st, c, d) ==
    IF d.outcome = "bad_indent"
    THEN Raised(Raise("SyntaxError", "Inconsistent indent", <<c>>, <<>>),
                TokState(c, d.levels, st.line_start))
    ELSE IF d.outcome = "indent"
    THEN Returned(Token("INDENT", <<>>), TokState(c, d.levels, FALSE))
    ELSE IF d.outcome = "raise"
    THEN Raised(Raise("SyntaxError", "Inconsistent dedent", <<c>>, <<>>),
                TokState(c, d.levels, st.line_start))
    ELSE IF d.outcome = "dedent"
    THEN Returned(Token("DEDENT", <<>>), TokState(c, d.levels, FALSE))
    ELSE ScanToken(s, TokState(c, d.levels, FALSE))

\* the comment that starts at offset c skipped, with the newline that ends it
SkipComment(st, s, e) ==
    Recurse(TokState(IF At(s, e) = NL THEN e + 1 ELSE e, st.indent_levels, TRUE))

\* the line start once the leading blanks, which end at offset c, are consumed
AfterBlanks(s, st, c) ==
    IF c < Len(s) /\ At(s, c) = NL
    THEN Recurse(TokState(c + 1, st.indent_levels, TRUE))
    ELSE IF c < Len(s) /\ Slice(s, c, c + 2) = <<"/", "/">>
    THEN SkipComment(st, s, LineEnd(s, c + 2))
    ELSE Only({Indented(s, st, c, d) :
                  d \in {CompareIndent(IndentWidth(Slice(s, st.cursor, c)),
                                       st.indent_levels)}})

\* "Handle indentation at line start before matching other tokens"
LineStart(s, st) == Only({AfterBlanks(s, st, c) : c \in {RunEnd(s, st.cursor, Blank)}})

\* the body of get_next_token up to its return, raise or recursive call
OnePass(s, st) ==
    IF ~has_more_tokens(s, st) THEN EndOfInput(st)
    ELSE IF st.line_start THEN LineStart(s, st)
    ELSE ScanToken(s, st)

RECURSIVE get_next_token(_, _)

\* the recursive call of get_next_token, where r asks for it
Again(s, r) == IF r.again THEN get_next_token(s, r.st) ELSE r

\* PlasmaTokenizer.get_next_token
get_next_token(s, st) == Again(s, OnePass(s, st))

\* the cursor put back to c after the peek r, which an exception skips
PutBack(c, r) == IF r.err # NoErr THEN r ELSE [r EXCEPT !.st.cursor = c]

\* PlasmaParser._lookahead_next on the tokenizer: the call, then the cursor put back
lookahead_next(s, st) == PutBack(st.cursor, get_next_token(s, st))

(***************************************************************************)
(* The texts the tokenizer is run on: up to MaxLines lines, each an        *)
(* indentation followed by a line body, joined by newlines.                *)
(***************************************************************************)
MaxLines == 4

Indents ==
    {<<>>, <<SP, SP>>, <<TAB>>, <<TAB, SP, SP>>, <<TAB, SP, SP, SP, SP>>}

LineTypes ==
    {ind \o <<"x">> : ind \in Indents}
        \cup {<<"1">>, <<>>, <<SP, SP, "/", "/">>}

RECURSIVE JoinLines(_)
JoinLines(ls) ==
    IF Len(ls) = 1 THEN ls[1] ELSE ls[1] \o <<NL>> \o JoinLines(Tail(ls))

LineSeqs == UNION {[1..n -> LineTypes] : n \in 1..MaxLines}

TokInputs == {JoinLines(ls) : ls \in LineSeqs}

NoTree == [type |-> "none"]

(***************************************************************************)
(* The tokenizer driven the way the parser drives it: get_next_token into  *)
(* the lookahead, and the peek whenever the lookahead is an IDENTIFIER.    *)
(***************************************************************************)
tz == TokState(cursor, indent_levels, line_start)

\* PlasmaTokenizer.__init__ on one of the texts
Init ==
    /\ text \in TokInputs
    /\ code = RStrip(text)
    /\ cursor = 0
    /\ indent_levels = <<0>>
    /\ line_start = TRUE
    /\ lookahead = NoneTok
    /\ peeked = NoneTok
    /\ earlier = "none"
    /\ error = NoErr
    /\ tree = NoTree

\* the outcome r of a get_next_token call stored: the tokenizer's fields, the
\* exception, and the token, where one was returned, as the lookahead
StoreToken(r) ==
    /\ cursor' = r.st.cursor
    /\ indent_levels' = r.st.indent_levels
    /\ line_start' = r.st.line_start
    /\ error' = r.err
    /\ lookahead' = IF r.err = NoErr THEN r.tok ELSE lookahead

\* the outcome r of a peek stored, the token as the peeked one
StorePeek(r) ==
    /\ cursor' = r.st.cursor
    /\ indent_levels' = r.st.indent_levels
    /\ line_start' = r.st.line_start
    /\ error' = r.err
    /\ peeked' = IF r.err = NoErr THEN r.tok ELSE peeked

\* self.lookahead = self.tokenizer.get_next_token()
Advance ==
    /\ error = NoErr
    /\ StoreToken(get_next_token(code, tz))
    /\ UNCHANGED <<text, code, peeked, tree, earlier>>

\* self._lookahead_next(), which the parser calls on an IDENTIFIER lookahead
LookaheadNext ==
    /\ error = NoErr
    /\ lookahead.type = "IDENTIFIER"
    /\ StorePeek(lookahead_next(code, tz))
    /\ UNCHANGED <<text, code, lookahead, tree, earlier>>

Next == Advance \/ LookaheadNext

Spec == Init /\ [][Next]_vars

(***************************************************************************)
(* The same calls taken one pass of get_next_token at a time: a pass       *)
(* returns a token, raises, or hands the tokenizer's fields to the         *)
(* recursive call, which is the next pass.  The parser's loops ask for a   *)
(* token (_eat) in every iteration, or raise, so the passes keep coming    *)
(* for as long as the parser runs.                                         *)
(***************************************************************************)
\* what the pass r leaves: the token it returned as the lookahead, or the
\* fields for the recursive call
StorePass(r) ==
    /\ cursor' = r.st.cursor
    /\ indent_levels' = r.st.indent_levels
    /\ line_start' = r.st.line_start
    /\ error' = r.err
    /\ lookahead' = IF r.err = NoErr /\ ~r.again THEN r.tok ELSE lookahead

\* get_next_token up to its return, raise or recursive call
Pass ==
    /\ error = NoErr
    /\ StorePass(OnePass(code, tz))
    /\ UNCHANGED <<text, code, peeked, tree, earlier>>

NextFair == Pass \/ LookaheadNext

MaxFairLines == 3

FairInputs == {JoinLines(ls) : ls \in UNION {[1..n -> LineTypes] : n \in 1..MaxFairLines}}

\* PlasmaTokenizer.__init__ on one of the texts
InitFair ==
    /\ text \in FairInputs
    /\ code = RStrip(text)
    /\ cursor = 0
    /\ indent_levels = <<0>>
    /\ line_start = TRUE
    /\ lookahead = NoneTok
    /\ peeked = NoneTok
    /\ earlier = "none"
    /\ error = NoErr
    /\ tree = NoTree

SpecFair == InitFair /\ [][NextFair]_vars /\ WF_vars(Pass)

(***************************************************************************)
(* Successive calls, and the next logical line, for the tokenizer claims.  *)
(***************************************************************************)
RECURSIVE Calls(_, _, _)
\* n successive get_next_token calls from st: the tokens returned, the fields
\* afterwards, and the exception that ended the run early, if any
Calls(s, st, n) ==
    IF n = 0 THEN [toks |-> <<>>, st |-> st, err |-> NoErr]
    ELSE LET r == get_next_token(s, st)
         IN  IF r.err # NoErr THEN [toks |-> <<>>, st |-> r.st, err |-> r.err]
             ELSE LET rest == Calls(s, r.st, n - 1)
                  IN  [toks |-> <<r.tok>> \o rest.toks, st |-> rest.st, err |-> rest.err]

RECURSIVE LogicalLine(_, _)
\* the first line at or after the line starting at offset i that is neither
\* blank nor a comment: its indentation width and the offset of its first token
LogicalLine(s, i) ==
    LET c == RunEnd(s, i, Blank)
    IN  IF c >= Len(s) THEN [found |-> FALSE, width |-> 0, at |-> c]
        ELSE IF At(s, c) = NL THEN LogicalLine(s, c + 1)
        ELSE IF StartsWith(s, c, <<"/", "/">>)
        THEN IF LineEnd(s, c) < Len(s) THEN LogicalLine(s, LineEnd(s, c) + 1)
             ELSE [found |-> FALSE, width |-> 0, at |-> Len(s)]
        ELSE [found |-> TRUE, width |-> IndentWidth(Slice(s, i, c)), at |-> c]

\* the new logical line the next get_next_token call starts, if it starts one:
\* the rest of the current line is blank, or the tokenizer is at a line start
NewLine ==
    IF line_start THEN LogicalLine(code, cursor)
    ELSE IF At(code, RunEnd(code, cursor, Blank)) = NL
    THEN LogicalLine(code, RunEnd(code, cursor, Blank) + 1)
    ELSE [found |-> FALSE, width |-> 0, at |-> cursor]

IsDedents(toks, k) == \A j \in 1..k : toks[j] = Token("DEDENT", <<>>)

\* C1: a peek that returns leaves the tokenizer's cursor, indent stack and
\* line_start flag as they were before it
C1_PeekLeavesTokenizerUnchanged ==
    [][(LookaheadNext /\ error' = NoErr)
           => UNCHANGED <<cursor, indent_levels, line_start>>]_vars

\* C2: at a new logical line whose width is the one k >= 2 levels below the
\* top of the stack, the next k calls return DEDENT, the call after them
\* returns the line's first token, and none of them raises
C2_DedentByManyLevels ==
    \A k \in 2..(Len(indent_levels) - 1) :
        (/\ error = NoErr
         /\ NewLine.found
         /\ NewLine.width = indent_levels[Len(indent_levels) - k])
            => LET run == Calls(code, tz, k + 1)
               IN  /\ run.err = NoErr
                   /\ Len(run.toks) = k + 1
                   /\ IsDedents(run.toks, k)
                   /\ run.toks[k + 1].type \notin {"DEDENT", "INDENT", "None"}
                   /\ run.st.indent_levels = SubSeq(indent_levels, 1, Len(indent_levels) - k)

\* C3: at a new logical line narrower than the top of the stack whose width
\* is on no level of the stack, the next call raises "Inconsistent dedent"
C3_DedentOffTheStackRaises ==
    (/\ error = NoErr
     /\ NewLine.found
     /\ NewLine.width < Top(indent_levels)
     /\ \A j \in 1..Len(indent_levels) : indent_levels[j] # NewLine.width)
        => LET r == get_next_token(code, tz)
           IN  r.err.kind = "SyntaxError" /\ r.err.msg = "Inconsistent dedent"

\* C9: with the cursor at the end of the source and n levels above the base,
\* the next n calls return DEDENT, the call after them returns None, and from
\* then on a call returns None and changes nothing
C9_DedentsThenEndOfStream ==
    (error = NoErr /\ cursor = Len(code))
        => LET n == Len(indent_levels) - 1
               run == Calls(code, tz, n + 1)
               later == get_next_token(code, run.st)
           IN  /\ run.err = NoErr
               /\ Len(run.toks) = n + 1
               /\ IsDedents(run.toks, n)
               /\ run.toks[n + 1] = NoneTok
               /\ run.st = TokState(cursor, <<indent_levels[1]>>, line_start)
               /\ later = Returned(NoneTok, run.st)

\* the end of the source reached two levels deep, one DEDENT already returned
C9_Witness ==
    /\ cursor = Len(code)
    /\ lookahead = Token("DEDENT", <<>>)
    /\ Len(indent_levels) = 2
    /\ error = NoErr

\* C10: the indent stack is never empty, starts with 0, and each level is
\* above the one below it by a positive multiple of 4
C10_IndentStackShape ==
    /\ Len(indent_levels) >= 1
    /\ indent_levels[1] = 0
    /\ \A j \in 2..Len(indent_levels) :
           /\ indent_levels[j] > indent_levels[j - 1]
           /\ (indent_levels[j] - indent_levels[j - 1]) % 4 = 0

\* two levels pushed, the second one seen by a peek
C10_Witness ==
    /\ indent_levels = <<0, 4, 8>>
    /\ peeked = Token("INDENT", <<>>)

(***************************************************************************)
(* The parser.  Its state is the tokenizer's fields (st), the lookahead     *)
(* (la), the exception raised so far (err), the values its calls have       *)
(* returned and not yet used (vals, the newest last), the token of the last *)
(* peek (pk) and the truth of the last test on it (test).  A production     *)
(* takes the state before it and gives the state after it, with the node it *)
(* returns appended to vals.  Once an exception is raised nothing else      *)
(* runs: every step hands a failed state on as it is.                       *)
(***************************************************************************)
PState(st, la, err) == [st |-> st, la |-> la, err |-> err]

Failed(p) == p.err # NoErr

\* the state after raising err
Throw(p, err) == [p EXCEPT !.err = err]

\* Python's None where a node is expected (a return without an expression)
NoneNode == [type |-> "None"]

\* subscripting None
NoneSubscript == RaiseP("TypeError", "'NoneType' object is not subscriptable", <<>>, "")

\* the k-th newest value (0 the newest)
Peek(p, k) == p.vals[Len(p.vals) - k]

Push(p, v) == [p EXCEPT !.vals = Append(@, v)]

\* the k newest values replaced by v
Replace(p, k, v) == [p EXCEPT !.vals = Append(SubSeq(@, 1, Len(@) - k), v)]

\* a returned value that is not used
Discard(p) == IF Failed(p) THEN p ELSE [p EXCEPT !.vals = SubSeq(@, 1, Len(@) - 1)]

\* a new empty list ( args = [], params = [], body = [] )
NewList(p) == IF Failed(p) THEN p ELSE Push(p, <<>>)

\* list.append(value) on the list below the newest value
AppendTop(p) ==
    IF Failed(p) THEN p ELSE Replace(p, 2, Append(Peek(p, 1), Peek(p, 0)))

\* the end of _eat: the lookahead returned and replaced by the token of the call r
Shift(p, r) ==
    IF r.err # NoErr THEN [p EXCEPT !.st = r.st, !.err = r.err]
    ELSE [p EXCEPT !.st = r.st, !.la = r.tok, !.vals = Append(@, p.la.value)]

\* PlasmaParser._eat: returns the lexeme of the token it consumed
_eat(s, p, token_type) ==
    IF Failed(p) THEN p
    ELSE IF p.la = NoneTok
    THEN Throw(p, RaiseP("SyntaxError", "Unexpected end of input", <<>>, token_type))
    ELSE IF p.la.type # token_type
    THEN Throw(p, RaiseP("SyntaxError", "Unexpected token", p.la.value, token_type))
    ELSE Shift(p, get_next_token(s, p.st))

RECURSIVE EatAll(_, _, _)
\* consecutive self._eat(...) calls whose tokens are not used
EatAll(s, p, types) ==
    IF types = <<>> THEN p
    ELSE EatAll(s, Discard(_eat(s, p, Head(types))), Tail(types))

\* the end of _lookahead_next: the token of the peek r
Peeked(p, r) == [p EXCEPT !.st = r.st, !.err = r.err, !.pk = r.tok]

\* PlasmaParser._lookahead_next
_lookahead_next(s, p) == IF Failed(p) THEN p ELSE Peeked(p, lookahead_next(s, p.st))

\* the truth value of the token just peeked
Truthy(p) == [p EXCEPT !.test = ~Failed(p) /\ p.pk # NoneTok]

\* the token just peeked subscripted with key and compared to val
Subscript(p, key, val) ==
    IF Failed(p) THEN [p EXCEPT !.test = FALSE]
    ELSE IF p.pk = NoneTok THEN [Throw(p, NoneSubscript) EXCEPT !.test = FALSE]
    ELSE [p EXCEPT !.test = (p.pk[key] = val)]

\* `... and self._lookahead_next()[key] == val`: a further peek where the
\* tests so far hold
AndPeek(s, p, key, val) ==
    IF p.test THEN Subscript(_lookahead_next(s, p), key, val) ELSE p

\* self._lookahead_next() and self._lookahead_next()['type'] == 'LPAREN'
NextIsLPAREN(s, p) == AndPeek(s, Truthy(_lookahead_next(s, p)), "type", "LPAREN")

\* self._lookahead_next() and (self._lookahead_next()['type'] == 'OPERATOR' and
\*                             self._lookahead_next()['value'] == '=')
NextIsAssign(s, p) ==
    AndPeek(s, AndPeek(s, Truthy(_lookahead_next(s, p)), "type", "OPERATOR"),
            "value", <<"=">>)

\* self.lookahead['type'] == 'IDENTIFIER' and (the peeks of NextIsLPAREN)
IdentifierThenLPAREN(s, p) ==
    IF p.la.type = "IDENTIFIER" THEN NextIsLPAREN(s, p) ELSE [p EXCEPT !.test = FALSE]

(***************************************************************************)
(* Literal values.                                                         *)
(***************************************************************************)
DigitValue(c) ==
    CASE c = "0" -> 0 [] c = "1" -> 1 [] c = "2" -> 2 [] c = "3" -> 3 [] c = "4" -> 4
      [] c = "5" -> 5 [] c = "6" -> 6 [] c = "7" -> 7 [] c = "8" -> 8 [] c = "9" -> 9

RECURSIVE DigitsValue(_)
DigitsValue(ds) ==
    IF ds = <<>> THEN 0
    ELSE 10 * DigitsValue(SubSeq(ds, 1, Len(ds) - 1)) + DigitValue(ds[Len(ds)])

\* int(token['value'])
IntValue(lexeme) ==
    IF Head(lexeme) = "-" THEN 0 - DigitsValue(Tail(lexeme)) ELSE DigitsValue(lexeme)

RECURSIVE Pow10(_)
Pow10(n) == IF n = 0 THEN 1 ELSE 10 * Pow10(n - 1)

RECURSIVE Reduce10(_, _)
Reduce10(num, den) ==
    IF den > 1 /\ num % 10 = 0 THEN Reduce10(num \div 10, den \div 10)
    ELSE [num |-> num, den |-> den]

\* float(token['value']), kept as the decimal fraction the lexeme denotes
FloatValue(lexeme) ==
    LET neg == Head(lexeme) = "-"
        body == IF neg THEN Tail(lexeme) ELSE lexeme
        dot == CHOOSE k \in 1..Len(body) : body[k] = "."
        digits == SubSeq(body, 1, dot - 1) \o SubSeq(body, dot + 1, Len(body))
        mag == DigitsValue(digits)
    IN  Reduce10(IF neg THEN 0 - mag ELSE mag, Pow10(Len(body) - dot))

RECURSIVE Unescape(_)
\* re.sub(r'\\([\'"\\nt])', ...) on the text between the quotes
Unescape(raw) ==
    IF raw = <<>> THEN <<>>
    ELSE IF raw[1] = BSL /\ Len(raw) >= 2 /\ raw[2] \in {SQ, DQ, BSL, "n", "t"}
    THEN <<CASE raw[2] = "n" -> NL [] raw[2] = "t" -> TAB [] OTHER -> raw[2]>>
             \o Unescape(SubSeq(raw, 3, Len(raw)))
    ELSE <<raw[1]>> \o Unescape(Tail(raw))

\* the literal node of the token just eaten
MakeLiteral(p, type) ==
    IF Failed(p) THEN p
    ELSE Replace(p, 1,
        CASE type = "INT" ->
                 [type |-> "integer_literal", value |-> IntValue(Peek(p, 0))]
          [] type = "FLOAT" ->
                 [type |-> "float_literal", value |-> FloatValue(Peek(p, 0))]
          [] type = "STR" ->
                 [type |-> "string_literal",
                  value |-> Unescape(SubSeq(Peek(p, 0), 2, Len(Peek(p, 0)) - 1))]
          [] type = "BOOL" ->
                 [type |-> "boolean_literal", value |-> (Peek(p, 0) = W_true)]
          [] type = "IDENTIFIER" ->
                 [type |-> "identifier", value |-> Peek(p, 0)])

\* _integer
_integer(s, p) == MakeLiteral(_eat(s, p, "INT"), "INT")

\* _float
_float(s, p) == MakeLiteral(_eat(s, p, "FLOAT"), "FLOAT")

\* _string
_string(s, p) == MakeLiteral(_eat(s, p, "STR"), "STR")

\* _boolean
_boolean(s, p) == MakeLiteral(_eat(s, p, "BOOL"), "BOOL")

\* _identifier
_identifier(s, p) == MakeLiteral(_eat(s, p, "IDENTIFIER"), "IDENTIFIER")

\* _literal
_literal(s, p) ==
    IF Failed(p) THEN p
    ELSE IF p.la = NoneTok
    THEN Throw(p, RaiseP("SyntaxError", "Unexpected end of input in literal", <<>>, ""))
    ELSE IF p.la.type = "INT" THEN _integer(s, p)
    ELSE IF p.la.type = "FLOAT" THEN _float(s, p)
    ELSE IF p.la.type = "STR" THEN _string(s, p)
    ELSE IF p.la.type = "BOOL" THEN _boolean(s, p)
    ELSE Throw(p, RaiseP("SyntaxError", "Unexpected token type", <<>>,
                         "INT, FLOAT, STR, BOOL"))

(***************************************************************************)
(* Expressions.                                                            *)
(***************************************************************************)
ComparisonOps == {<<"=", "=">>, <<"!", "=">>, <<"<">>, <<">">>, <<"<", "=">>, <<">", "=">>}

AdditiveOps == {<<"+">>, <<"-">>}

MultiplicativeOps == {<<"*">>, <<"/">>}

\* TierOps with the products and quotients taken by the additive loop
TierOpsOneLevel(tier) ==
    CASE tier = "comparative" -> ComparisonOps
      [] tier = "additive" -> AdditiveOps \cup MultiplicativeOps
      [] tier = "multiplicative" -> {}

\* the operators each tier's while loop accepts
TierOps(tier) ==
    CASE tier = "comparative" -> ComparisonOps
      [] tier = "additive" -> AdditiveOps
      [] tier = "multiplicative" -> MultiplicativeOps

BinaryExpression(operator, left, right) ==
    [type |-> "binary_expression", operator |-> operator, left |-> left, right |-> right]

\* left = {binary_expression, operator, left, right} from the three newest values
MakeBinary(p) ==
    IF Failed(p) THEN p
    ELSE Replace(p, 3, BinaryExpression(Peek(p, 1), Peek(p, 2), Peek(p, 0)))

RECURSIVE _expression(_, _)
RECURSIVE _primary_expression(_, _)
RECURSIVE _function_call(_, _)
RECURSIVE ArgLoop(_, _)
RECURSIVE Tier(_, _, _)
RECURSIVE TierLoop(_, _, _)

\* the function a tier calls for its operands: the next-higher tier
Operand(s, p, tier) ==
    IF tier = "comparative" THEN Tier(s, p, "additive")
    ELSE IF tier = "additive" THEN Tier(s, p, "multiplicative")
    ELSE _primary_expression(s, p)

\* the while loop of a tier: folds operator/operand pairs onto left
TierLoop(s, p, tier) ==
    IF Failed(p) THEN p
    ELSE IF p.la # NoneTok /\ p.la.type = "OPERATOR" /\ p.la.value \in TierOps(tier)
    THEN TierLoop(s, MakeBinary(Operand(s, _eat(s, p, "OPERATOR"), tier)), tier)
    ELSE p

\* one binary-operator tier: first operand, then the loop
Tier(s, p, tier) == TierLoop(s, Operand(s, p, tier), tier)

_comparative_expression(s, p) == Tier(s, p, "comparative")

_additive_expression(s, p) == Tier(s, p, "additive")

_multiplicative_expression(s, p) == Tier(s, p, "multiplicative")

\* the two returns of _expression, on the outcome k of its test
CallOrComparison(s, k) ==
    IF Failed(k) THEN k
    ELSE IF k.test THEN _function_call(s, k)
    ELSE _comparative_expression(s, k)

\* _expression
_expression(s, p) ==
    IF Failed(p) THEN p
    ELSE IF p.la = NoneTok THEN Throw(p, NoneSubscript)
    ELSE CallOrComparison(s, IdentifierThenLPAREN(s, p))

\* the two returns of the IDENTIFIER branch of _primary_expression
CallOrIdentifier(s, k) ==
    IF Failed(k) THEN k
    ELSE IF k.test THEN _function_call(s, k)
    ELSE _identifier(s, k)

\* _primary_expression
_primary_expression(s, p) ==
    IF Failed(p) THEN p
    ELSE IF p.la = NoneTok THEN Throw(p, NoneSubscript)
    ELSE IF p.la.type \in {"INT", "FLOAT", "STR", "BOOL"} THEN _literal(s, p)
    ELSE IF p.la.type = "IDENTIFIER" THEN CallOrIdentifier(s, NextIsLPAREN(s, p))
    ELSE Throw(p, RaiseP("SyntaxError", "Unexpected token type", <<>>,
                         "INT, FLOAT, STR, BOOL, or IDENTIFIER"))

\* the while loop of _function_call: further arguments after commas
ArgLoop(s, p) ==
    IF Failed(p) THEN p
    ELSE IF p.la # NoneTok /\ p.la.type = "COMMA"
    THEN ArgLoop(s, AppendTop(_expression(s, Discard(_eat(s, p, "COMMA")))))
    ELSE p

\* the arguments of _function_call, between the parentheses
Arguments(s, p) ==
    IF Failed(p) THEN p
    ELSE IF p.la # NoneTok /\ p.la.type # "RPAREN"
    THEN ArgLoop(s, AppendTop(_expression(s, p)))
    ELSE p

\* {function_call, name, arguments} from the name and the list
MakeCall(p) ==
    IF Failed(p) THEN p
    ELSE Replace(p, 2, [type |-> "function_call", name |-> Peek(p, 1),
                        arguments |-> Peek(p, 0)])

\* _function_call
_function_call(s, p) ==
    MakeCall(EatAll(s, Arguments(s, NewList(EatAll(s, _eat(s, p, "IDENTIFIER"),
                                                   <<"LPAREN">>))),
                    <<"RPAREN">>))

(***************************************************************************)
(* Statements.                                                             *)
(***************************************************************************)
RECURSIVE _statement(_, _)
RECURSIVE BodyLoop(_, _)
RECURSIVE ParamLoop(_, _)

\* a parameter node with the two lexemes taken in the wrong order
MakeParameterSwapped(p) ==
    IF Failed(p) THEN p
    ELSE Replace(p, 2, [type |-> "parameter", param_type |-> Peek(p, 0),
                        name |-> Peek(p, 1)])

\* {parameter, param_type, name} from the two lexemes
MakeParameter(p) ==
    IF Failed(p) THEN p
    ELSE Replace(p, 2, [type |-> "parameter", param_type |-> Peek(p, 1),
                        name |-> Peek(p, 0)])

\* _parameter
_parameter(s, p) == MakeParameter(_eat(s, _eat(s, p, "TYPE"), "IDENTIFIER"))

\* the while loop of _function_declaration: further parameters after commas
ParamLoop(s, p) ==
    IF Failed(p) THEN p
    ELSE IF p.la # NoneTok /\ p.la.type = "COMMA"
    THEN ParamLoop(s, AppendTop(_parameter(s, Discard(_eat(s, p, "COMMA")))))
    ELSE p

\* the parameters of _function_declaration, between the parentheses
Parameters(s, p) ==
    IF Failed(p) THEN p
    ELSE IF p.la # NoneTok /\ p.la.type # "RPAREN"
    THEN ParamLoop(s, AppendTop(_parameter(s, p)))
    ELSE p

\* `if self.lookahead and self.lookahead['type'] == 'SEMI': self._eat('SEMI')`
OptionalSemi(s, p) ==
    IF Failed(p) THEN p
    ELSE IF p.la # NoneTok /\ p.la.type = "SEMI" THEN Discard(_eat(s, p, "SEMI"))
    ELSE p

\* the body loop of a block: statements up to the DEDENT, each with an optional SEMI
BodyLoop(s, p) ==
    IF Failed(p) THEN p
    ELSE IF p.la # NoneTok /\ p.la.type # "DEDENT"
    THEN BodyLoop(s, OptionalSemi(s, AppendTop(_statement(s, p))))
    ELSE p

\* the block of a function or an if: COLON, INDENT, the body, DEDENT
Block(s, p, opening) ==
    EatAll(s, BodyLoop(s, NewList(EatAll(s, p, opening))), <<"DEDENT">>)

\* {function_declaration, ...} from the name, the parameters and the body
MakeFunction(p, return_type) ==
    IF Failed(p) THEN p
    ELSE Replace(p, 3, [type |-> "function_declaration", return_type |-> return_type,
                        name |-> Peek(p, 2), parameters |-> Peek(p, 1),
                        body |-> Peek(p, 0)])

\* _function_declaration
_function_declaration(s, p, return_type) ==
    MakeFunction(Block(s, Parameters(s, NewList(EatAll(s, _eat(s, p, "IDENTIFIER"),
                                                       <<"LPAREN">>))),
                       <<"RPAREN", "COLON", "INDENT">>),
                 return_type)

\* {variable_declaration, ...} from the name and the expression
MakeVariable(p, decl_type) ==
    IF Failed(p) THEN p
    ELSE Replace(p, 2, [type |-> "variable_declaration", var_type |-> decl_type,
                        name |-> Peek(p, 1), operator |-> <<"=">>,
                        expression |-> Peek(p, 0)])

\* the declaration after the test k for the assignment operator
Assignment(s, k, decl_type) ==
    IF Failed(k) THEN k
    ELSE IF ~k.test
    THEN Throw(k, RaiseP("SyntaxError", "Assignment operator not found", <<>>, "="))
    ELSE MakeVariable(_expression(s, EatAll(s, _eat(s, k, "IDENTIFIER"), <<"OPERATOR">>)),
                      decl_type)

\* _variable_declaration, from the second test of the lookahead on
VariableTail(s, p, decl_type) ==
    IF p.la.type = "IDENTIFIER" /\ decl_type \in {W_int, W_float, W_str, W_bool}
    THEN Assignment(s, NextIsAssign(s, p), decl_type)
    ELSE IF p.la.type = "IDENTIFIER" /\ decl_type = W_void
    THEN Throw(p, RaiseP("SyntaxError",
                         "Keyword 'void' cannot be used to declare variables",
                         <<>>, "int, float, str, or bool"))
    ELSE Throw(p, RaiseP("SyntaxError", "Unexpected token after type",
                         decl_type, "IDENTIFIER"))

\* the two returns of _variable_declaration, on the outcome k of its first test
FunctionOrVariable(s, k) ==
    IF Failed(k) THEN k
    ELSE IF k.test THEN _function_declaration(s, k, Peek(k, 0))
    ELSE VariableTail(s, k, Peek(k, 0))

\* _variable_declaration after the type t
AfterType(s, t) ==
    IF Failed(t) THEN t
    ELSE IF t.la = NoneTok THEN Throw(t, NoneSubscript)
    ELSE FunctionOrVariable(s, IdentifierThenLPAREN(s, t))

\* the node a production returns in place of the lexeme it started with
Returning(p) == IF Failed(p) THEN p ELSE Replace(p, 2, Peek(p, 0))

\* _variable_declaration
_variable_declaration(s, p) == Returning(AfterType(s, _eat(s, p, "TYPE")))

\* {if_statement, expression, body}
MakeIf(p) ==
    IF Failed(p) THEN p
    ELSE Replace(p, 2, [type |-> "if_statement", expression |-> Peek(p, 1),
                        body |-> Peek(p, 0)])

\* _if_statement after the expression x
Condition(s, x) ==
    IF Failed(x) THEN x
    ELSE IF \/ /\ Peek(x, 0).type = "binary_expression"
               /\ Peek(x, 0).operator \in ComparisonOps
            \/ Peek(x, 0).type = "boolean_literal"
    THEN MakeIf(Block(s, x, <<"COLON", "INDENT">>))
    ELSE Throw(x, RaiseP("SyntaxError", "Expression must evaluate to bool", <<>>, ""))

\* _if_statement
_if_statement(s, p) == Returning(Condition(s, _expression(s, _eat(s, p, "IF"))))

\* {return_statement, expression}
MakeReturn(p) ==
    IF Failed(p) THEN p
    ELSE Replace(p, 1, [type |-> "return_statement", expression |-> Peek(p, 0)])

\* _return_statement after the keyword
ReturnValue(s, e) ==
    IF Failed(e) THEN e
    ELSE IF e.la # NoneTok /\ e.la.type # "SEMI" THEN MakeReturn(_expression(s, e))
    ELSE MakeReturn(Push(e, NoneNode))

\* _return_statement
_return_statement(s, p) == Returning(ReturnValue(s, _eat(s, p, "RETURN")))

\* _statement
_statement(s, p) ==
    IF Failed(p) THEN p
    ELSE IF p.la.type = "TYPE" THEN _variable_declaration(s, p)
    ELSE IF p.la.type = "IF" THEN _if_statement(s, p)
    ELSE IF p.la.type = "RETURN" THEN _return_statement(s, p)
    ELSE _expression(s, p)

BlockStatements == {"function_declaration", "if_statement", "while_statement"}

\* the semicolon after the statement st of _program: required unless st is a
\* block statement, and consumed where it is there
Terminator(s, st) ==
    IF Failed(st) THEN st
    ELSE IF st.la # NoneTok /\ st.la.type = "SEMI"
    THEN Discard(_eat(s, st, "SEMI"))
    ELSE IF Peek(st, 0).type \notin BlockStatements
    THEN Throw(st, RaiseP("SyntaxError", "Expected semicolon after", <<>>,
                          Peek(st, 0).type))
    ELSE st

RECURSIVE ProgramLoop(_, _)
\* the while loop of _program
ProgramLoop(s, p) ==
    IF Failed(p) THEN p
    ELSE IF p.la # NoneTok THEN ProgramLoop(s, AppendTop(Terminator(s, _statement(s, p))))
    ELSE p

\* {program, body}
MakeProgram(p) ==
    IF Failed(p) THEN p ELSE Replace(p, 1, [type |-> "program", body |-> Peek(p, 0)])

\* _program
_program(s, p) == MakeProgram(ProgramLoop(s, NewList(p)))

\* the parser on a new tokenizer, with the first token r as the lookahead
FirstToken(r) ==
    [st |-> r.st, la |-> r.tok, err |-> r.err, vals |-> <<>>, pk |-> NoneTok,
     test |-> FALSE]

\* what parse leaves: the tokenizer's fields, the lookahead, the exception
\* raised, and the tree returned
Outcome(p) ==
    [p |-> PState(p.st, p.la, p.err),
     node |-> IF Failed(p) THEN NoTree ELSE Peek(p, 0)]

\* parse on the stripped text s
ParseCode(s) ==
    Outcome(_program(s, FirstToken(get_next_token(s, TokState(0, <<0>>, TRUE)))))

\* PlasmaParser.parse: a new tokenizer on the text, the first token, the program
parse(t) == ParseCode(RStrip(t))

(***************************************************************************)
(* The programs the parser is run on.  Each holds one statement per line:  *)
(* expression statements that are chains of operands and binary operators, *)
(* the three non-block statements at top level, in a function body and in  *)
(* an if body, with and without their semicolons, the beginnings of two    *)
(* programs cut after every character, and single words.                   *)
(***************************************************************************)
MaxOps == 2

MaxCallOps == 1

MaxStmts == 2

MaxWordLen == 3

Operands == {<<"1">>, <<"x">>}

CallOperand == <<"f", "(", "x", ")">>

BinaryOps == {<<"+">>, <<"-">>, <<"*">>, <<"/">>, <<"<">>}

RECURSIVE Chains(_, _)
\* operand (operator operand)^n, as the list of its lexemes
Chains(operands, n) ==
    IF n = 0 THEN {<<o>> : o \in operands}
    ELSE {c \o <<op, o>> : c \in Chains(operands, n - 1), op \in BinaryOps, o \in operands}

RECURSIVE Spaced(_)
\* the lexemes separated by single spaces
Spaced(items) ==
    IF Len(items) = 1 THEN items[1] ELSE items[1] \o <<SP>> \o Spaced(Tail(items))

ExprInputs ==
    {Spaced(c) \o <<";">> :
        c \in UNION ({Chains(Operands, n) : n \in 0..MaxOps}
                         \cup {Chains(Operands \cup {CallOperand}, n) : n \in 0..MaxCallOps})}

Statements == {<<"i", "n", "t", SP, "x", SP, "=", SP, "1">>,
     <<"r", "e", "t", "u", "r", "n", SP, "1">>,
     <<"x">>}

StatementLines == {st \o semi : st \in Statements, semi \in {<<>>, <<";">>}}

Headers == {<<>>,
     <<"i", "n", "t", SP, "f", "(", ")", ":">>,
     <<"i", "f", SP, "t", "r", "u", "e", ":">>}

\* the lines at top level, or indented by one level under the header
Program(header, ls) ==
    IF header = <<>> THEN JoinLines(ls)
    ELSE header \o <<NL>> \o JoinLines([k \in 1..Len(ls) |-> <<SP, SP, SP, SP>> \o ls[k]])

StatementInputs ==
    {Program(h, ls) : h \in Headers,
                      ls \in UNION {[1..n -> StatementLines] : n \in 1..MaxStmts}}

Bases == {<<"i", "n", "t", SP, "y", SP, "=", SP, "f", "(", "1", ",", SP, "x", ")", SP, "+", SP, "1", ";">>,
     <<"i", "f", SP, "x", SP, "<", SP, "1", ":", NL, SP, SP, SP, SP, "r", "e", "t", "u", "r", "n", SP, "x", ";">>,
     <<"x", SP, "*", SP, "f", "(", "1", ",", SP, "1", ")", ";">>}

PrefixInputs == UNION {{SubSeq(b, 1, n) : n \in 1..Len(b)} : b \in Bases}

Alphabet == {"i", "n", "t", "f", "1"}

WordInputs == {w \o <<";">> : w \in UNION {[1..n -> Alphabet] : n \in 1..MaxWordLen}}

\* the parameter lists of the function declarations
Parameter(param_type, name) == [type |-> "parameter", param_type |-> param_type, name |-> name]

ParamLists ==
    {<<>>, <<Parameter(W_int, <<"a">>)>>,
     <<Parameter(W_int, <<"a">>), Parameter(W_str, <<"b">>)>>}

RECURSIVE ParamsText(_)
\* TYPE name, TYPE name, ...
ParamsText(ps) ==
    IF ps = <<>> THEN <<>>
    ELSE ps[1].param_type \o <<SP>> \o ps[1].name
             \o (IF Len(ps) = 1 THEN <<>> ELSE <<",", SP>> \o ParamsText(Tail(ps)))

\* d levels of indentation
Pad(d) == [k \in 1..(4 * d) |-> SP]

FunctionBodies == UNION {[1..n -> Statements] : n \in 1..MaxStmts}

\* the declaration  return_type f(ps):  with its block of the statements of
\* body, each ending in a semicolon, at top level (d = 0) or in the body of
\* an if (d = 1), the block closed by the line `x;` at the header's
\* indentation or by the end of the text
FunctionText(return_type, ps, body, closed, d) ==
    (IF d = 0 THEN <<>> ELSE W_if \o <<SP>> \o W_true \o <<":", NL>>)
        \o Pad(d) \o return_type \o <<SP, "f", "(">> \o ParamsText(ps) \o <<")", ":", NL>>
        \o JoinLines([k \in 1..Len(body) |-> Pad(d + 1) \o body[k] \o <<";">>])
        \o (IF closed THEN <<NL>> \o Pad(d) \o <<"x", ";">> ELSE <<>>)

FunctionInputs ==
    {FunctionText(return_type, ps, body, closed, d) :
        return_type \in {W_int, W_void}, ps \in ParamLists, body \in FunctionBodies,
        closed \in BOOLEAN, d \in 0..1}

\* what follows `void x` on its line
VoidTails == {<<>>, <<";">>, <<SP, "=", SP, "1", ";">>}

\* the line `void x...` alone or followed by the line `x;`
VoidLines(tail) ==
    {<<W_void \o <<SP, "x">> \o tail>>, <<W_void \o <<SP, "x">> \o tail, <<"x", ";">>>>}

\* `void x` as a statement at top level, in a function body and in an if body
VoidInputs == {Program(h, ls) : h \in Headers, ls \in UNION {VoidLines(tail) : tail \in VoidTails}}

\* nothing or one space
Gaps == {<<>>, <<SP>>}

\* the subtraction of 1 from the operand a, with the gaps before and after
\* the minus sign
MinusText(a, before, after) == a \o before \o <<"-">> \o after \o <<"1", ";">>

MinusInputs == {MinusText(a, before, after) : a \in Operands, before \in Gaps, after \in Gaps}

\* the multi-character identifier statement of the parser's tests
TestInputs == {<<"a", "b", "c", ";">>}

ParseInputs ==
    ExprInputs \cup StatementInputs \cup PrefixInputs \cup WordInputs \cup TestInputs
        \cup FunctionInputs \cup VoidInputs \cup MinusInputs

(***************************************************************************)
(* The parser run on one of the programs.                                  *)
(***************************************************************************)
\* PlasmaParser.__init__: an empty tokenizer and no lookahead
InitParse ==
    /\ text \in ParseInputs
    /\ code = <<>>
    /\ cursor = 0
    /\ indent_levels = <<0>>
    /\ line_start = TRUE
    /\ lookahead = NoneTok
    /\ peeked = NoneTok
    /\ earlier = "none"
    /\ error = NoErr
    /\ tree = NoTree

\* parse has returned or raised
parsed == tree # NoTree \/ error # NoErr

\* what the call r of parse leaves in the parser and its tokenizer
StoreOutcome(r) ==
    /\ cursor' = r.p.st.cursor
    /\ indent_levels' = r.p.st.indent_levels
    /\ line_start' = r.p.st.line_start
    /\ lookahead' = r.p.la
    /\ error' = r.p.err
    /\ tree' = r.node

\* PlasmaParser.parse(text)
Parse ==
    /\ ~parsed
    /\ code' = RStrip(text)
    /\ StoreOutcome(parse(text))
    /\ UNCHANGED <<text, peeked, earlier>>

NextParse == Parse

SpecParse == InitParse /\ [][NextParse]_vars

(***************************************************************************)
(* One parser used for several texts in turn.  earlier records how the     *)
(* parse before the last one on that parser ended.                         *)
(***************************************************************************)
ReuseInputs ==
    PrefixInputs \cup TestInputs
        \cup {Program(h, <<st \o <<";">>>>) : h \in Headers, st \in Statements}

InitReuse ==
    /\ text \in ReuseInputs
    /\ code = <<>>
    /\ cursor = 0
    /\ indent_levels = <<0>>
    /\ line_start = TRUE
    /\ lookahead = NoneTok
    /\ peeked = NoneTok
    /\ earlier = "none"
    /\ error = NoErr
    /\ tree = NoTree

\* the parser object: its tokenizer's fields and its lookahead
instance == [code |-> code, st |-> tz, la |-> lookahead]

\* a parser whose tokenizer is kept for the new text
KeepTokenizer(inst, t) == [inst EXCEPT !.code = RStrip(t)]

\* self.tokenizer = PlasmaTokenizer(code)
NewTokenizer(inst, t) ==
    [inst EXCEPT !.code = RStrip(t), !.st = TokState(0, <<0>>, TRUE)]

\* self.lookahead = self.tokenizer.get_next_token(); return self._program()
Restarted(inst) ==
    Outcome(_program(inst.code, FirstToken(get_next_token(inst.code, inst.st))))

\* how the last parse on the parser ended
Ended == IF ~parsed THEN "none" ELSE IF error = NoErr THEN "returned" ELSE "raised"

\* PlasmaParser.parse(t) on the parser as the calls before left it
ParseAgain ==
    \E t \in ReuseInputs :
        /\ text' = t
        /\ code' = RStrip(t)
        /\ StoreOutcome(Restarted(NewTokenizer(instance, t)))
        /\ earlier' = Ended
        /\ UNCHANGED peeked

NextReuse == ParseAgain

SpecReuse == InitReuse /\ [][NextReuse]_vars

(***************************************************************************)
(* The text of a program taken apart again, for the parser claims.         *)
(***************************************************************************)
RECURSIVE Split(_, _)
\* s.split(sep)
Split(s, sep) ==
    IF \A k \in 1..Len(s) : s[k] # sep THEN <<s>>
    ELSE LET k == CHOOSE i \in 1..Len(s) : s[i] = sep /\ \A j \in 1..(i - 1) : s[j] # sep
         IN  <<SubSeq(s, 1, k - 1)>> \o Split(SubSeq(s, k + 1, Len(s)), sep)

\* the lines of the source
Lines == Split(code, NL)

\* the lexemes of a source that is one statement ending in a semicolon, its
\* lexemes separated by single spaces
Lexemes ==
    IF code # <<>> /\ code[Len(code)] = ";"
    THEN Split(SubSeq(code, 1, Len(code) - 1), SP)
    ELSE <<>>

\* operand (operator operand)*
IsChain(items) ==
    /\ Len(items) % 2 = 1
    /\ \A k \in 1..Len(items) :
           IF k % 2 = 1 THEN items[k] \in Operands \cup {CallOperand}
           ELSE items[k] \in BinaryOps

\* the node of one operand
OperandNode(o) ==
    IF o = <<"1">> THEN [type |-> "integer_literal", value |-> 1]
    ELSE IF o = <<"x">> THEN [type |-> "identifier", value |-> <<"x">>]
    ELSE [type |-> "function_call", name |-> <<"f">>,
          arguments |-> <<[type |-> "identifier", value |-> <<"x">>]>>]

\* how tightly an operator binds
Precedence(op) ==
    IF op \in {<<"*">>, <<"/">>} THEN 3
    ELSE IF op \in {<<"+">>, <<"-">>} THEN 2
    ELSE 1

RECURSIVE ExpectedTree(_)
\* the tree of a chain by precedence and left association: the chain splits at
\* the last of its loosest operators
ExpectedTree(items) ==
    IF Len(items) = 1 THEN OperandNode(items[1])
    ELSE LET ops == {k \in 1..Len(items) : k % 2 = 0}
             loosest == CHOOSE k \in ops :
                            \A j \in ops :
                                \/ Precedence(items[j]) > Precedence(items[k])
                                \/ Precedence(items[j]) = Precedence(items[k]) /\ j <= k
         IN  BinaryExpression(items[loosest],
                              ExpectedTree(SubSeq(items, 1, loosest - 1)),
                              ExpectedTree(SubSeq(items, loosest + 1, Len(items))))

\* the program of one statement
OneStatement(node) == [type |-> "program", body |-> <<node>>]

\* the characters a source that stops short of a required token can end with:
\* an operator or a comma
OpenEnds == {"=", "+", "-", "*", "/", "<", ">", ","}

\* the word the source ends with
LastWord(s) == SubSeq(s, CHOOSE i \in 1..(Len(s) + 1) :
                             /\ \A j \in i..Len(s) : s[j] \in IdentChar
                             /\ i > 1 => s[i - 1] \notin IdentChar,
                      Len(s))

\* the source ends right after a type keyword, `if`, an operator or a comma
EndsShort(s) ==
    /\ s # <<>>
    /\ \/ s[Len(s)] \in OpenEnds
       \/ LastWord(s) \in {W_int, W_if}

\* C4: parse returns a tree only if every non-block statement, at top level
\* or in a function or if body, is followed by a semicolon (each line of the
\* source holds one statement, and a line ending in a colon opens a block)
C4_SemicolonRequired ==
    (error = NoErr /\ tree # NoTree)
        => \A k \in 1..Len(Lines) :
               (Lines[k] # <<>> /\ Lines[k][Len(Lines[k])] # ":")
                   => Lines[k][Len(Lines[k])] = ";"

\* C5: when the source ends where another token is required (after a type
\* keyword, `if`, an operator or a comma) parse raises SyntaxError
C5_EndOfInputIsSyntaxError ==
    (parsed /\ EndsShort(code)) => error.kind = "SyntaxError"

\* C6: `call op operand;` parses to a binary expression whose left child is
\* the function call, as `operand op call;` parses to one whose right child
\* is the function call
C6_CallIsAnyOperand ==
    (parsed /\ IsChain(Lexemes) /\ Len(Lexemes) = 3)
        => /\ Lexemes[1] = CallOperand
               => /\ error = NoErr
                  /\ tree.type = "program"
                  /\ Len(tree.body) = 1
                  /\ tree.body[1].type = "binary_expression"
                  /\ tree.body[1].left = OperandNode(CallOperand)
           /\ (Lexemes[1] # CallOperand /\ Lexemes[3] = CallOperand)
               => /\ error = NoErr
                  /\ tree.type = "program"
                  /\ Len(tree.body) = 1
                  /\ tree.body[1].type = "binary_expression"
                  /\ tree.body[1].right = OperandNode(CallOperand)

\* C7: for a word w of identifier characters that is not reserved, parse of
\* `w;` returns the program of one identifier node whose value is all of w
C7_WordIsOneIdentifier ==
    (/\ parsed
     /\ Len(Lexemes) = 1
     /\ Lexemes[1] # <<>>
     /\ Lexemes[1][1] \in IdentStart
     /\ \A k \in 1..Len(Lexemes[1]) : Lexemes[1][k] \in IdentChar
     /\ Lexemes[1] \notin ReservedWords)
        => /\ error = NoErr
           /\ tree = OneStatement([type |-> "identifier", value |-> Lexemes[1]])

\* C8: the tree parse returns for a chain of operands and binary operators
\* puts * and / below + and -, those below the comparisons, and nests equal
\* precedence to the left
C8_PrecedenceAndLeftAssociation ==
    (error = NoErr /\ tree # NoTree /\ IsChain(Lexemes))
        => tree = OneStatement(ExpectedTree(Lexemes))

\* `1 + x * 1;` (or the like) parsed: a sum whose right operand is a product
C8_Witness ==
    /\ error = NoErr
    /\ tree.type = "program"
    /\ Len(tree.body) = 1
    /\ tree.body[1].type = "binary_expression"
    /\ tree.body[1].operator = <<"+">>
    /\ tree.body[1].right.type = "binary_expression"
    /\ tree.body[1].right.operator = <<"*">>
    /\ tree.body[1].left.type = "integer_literal"

(***************************************************************************)
(* The tokenizer on texts of words: reserved words, words that start with  *)
(* one, plain identifiers, numbers and characters no pattern matches, up   *)
(* to MaxLexemes of them, next to each other or separated by a space or a  *)
(* newline.                                                                *)
(***************************************************************************)
MaxLexemes == 2

LexPieces ==
    {W_else, W_in, W_for, W_int, W_true, <<"x">>, <<"e", "l", "s", "e", "x">>,
     <<"1">>, <<"@">>, <<";">>}

Separators == {<<>>, <<SP>>, <<SP, SP>>, <<NL>>}

RECURSIVE LexTexts(_)
\* the texts of n pieces
LexTexts(n) ==
    IF n = 1 THEN LexPieces
    ELSE {t \o sep \o w : t \in LexTexts(n - 1), sep \in Separators, w \in LexPieces}

LexInputs == UNION {LexTexts(n) : n \in 1..MaxLexemes}

\* PlasmaTokenizer.__init__ on one of the texts of words
InitLex ==
    /\ text \in LexInputs
    /\ code = RStrip(text)
    /\ cursor = 0
    /\ indent_levels = <<0>>
    /\ line_start = TRUE
    /\ lookahead = NoneTok
    /\ peeked = NoneTok
    /\ earlier = "none"
    /\ error = NoErr
    /\ tree = NoTree

SpecLex == InitLex /\ [][Next]_vars

\* the reserved words, as the keyword guard is specified
Reserved ==
    {<<"t", "r", "u", "e">>,
     <<"f", "a", "l", "s", "e">>,
     <<"i", "n", "t">>,
     <<"f", "l", "o", "a", "t">>,
     <<"s", "t", "r">>,
     <<"b", "o", "o", "l">>,
     <<"v", "o", "i", "d">>,
     <<"i", "f">>,
     <<"e", "l", "i", "f">>,
     <<"e", "l", "s", "e">>,
     <<"w", "h", "i", "l", "e">>,
     <<"f", "o", "r">>,
     <<"i", "n">>,
     <<"r", "a", "n", "g", "e">>,
     <<"r", "e", "t", "u", "r", "n">>}

\* the word that starts at offset i, if the identifier pattern is what
\* matches there
IdentifierAt(s, i) ==
    IF RegexMatch(s, i).name = "IDENTIFIER" THEN Slice(s, i, RegexMatch(s, i).end)
    ELSE <<>>

\* C11: no IDENTIFIER token returned, by a call or by a peek, has a reserved
\* word as its lexeme; and where the identifier pattern matches a reserved
\* word at the next lexeme of the line, the next call raises the keyword error
C11_NoReservedIdentifier ==
    /\ lookahead.type = "IDENTIFIER" => lookahead.value \notin Reserved
    /\ peeked.type = "IDENTIFIER" => peeked.value \notin Reserved
    /\ (/\ error = NoErr
        /\ ~line_start \/ At(code, cursor) \notin Blank
        /\ IdentifierAt(code, RunEnd(code, cursor, Blank)) \in Reserved)
           => /\ get_next_token(code, tz).err.kind = "SyntaxError"
              /\ get_next_token(code, tz).err.msg = "Unexpected keyword"

\* the keyword error raised for `else` after an identifier was returned
C11_Witness ==
    /\ error.msg = "Unexpected keyword"
    /\ error.what = W_else
    /\ lookahead.type = "IDENTIFIER"

\* C12: a lexical error for an invalid character or for a reserved word used
\* as an identifier reports the offset in the source, between 0 and its
\* length, at which the offending text starts
C12_ErrorOffsetIsExact ==
    (error.kind = "SyntaxError" /\ error.msg \in {"Invalid character", "Unexpected keyword"})
        => /\ error.pos[1] \in 0..Len(code)
           /\ Slice(code, error.pos[1], error.pos[1] + Len(error.what)) = error.what

\* C13: parse of `abc;` raises no lexical error: it returns the program whose
\* one statement is the identifier abc
C13_AbcIsAnIdentifier ==
    (parsed /\ text = <<"a", "b", "c", ";">>)
        => /\ error = NoErr
           /\ tree = OneStatement([type |-> "identifier", value |-> <<"a", "b", "c">>])

\* `abc;` was parsed
C13_Witness == parsed /\ text = <<"a", "b", "c", ";">> /\ tree.type = "program"

\* C13 as stated: parse of `abc;` fails with the invalid-character error at
\* offset 0 for the character a, and returns no program
C13_AbcIsALexicalError ==
    (parsed /\ text = <<"a", "b", "c", ";">>)
        => /\ error.kind = "SyntaxError"
           /\ error.msg = "Invalid character"
           /\ error.pos = <<0>>
           /\ error.what = <<"a">>
           /\ tree = NoTree

\* C14: whatever was parsed before on the same parser, and however it ended,
\* a parse returns the tree, or raises the error, that a new parser and
\* tokenizer give for the text
C14_OutcomeDependsOnTextOnly ==
    parsed => /\ tree = parse(text).node
              /\ error = parse(text).p.err

\* a program returned by a parser whose parse before raised an error
C14_Witness == earlier = "raised" /\ tree.type = "program"

\* the node of one of the three statements
StatementNode(st) ==
    IF st = <<"x">> THEN [type |-> "identifier", value |-> <<"x">>]
    ELSE IF st[1] = "r"
    THEN [type |-> "return_statement",
          expression |-> [type |-> "integer_literal", value |-> 1]]
    ELSE [type |-> "variable_declaration", var_type |-> W_int, name |-> <<"x">>,
          operator |-> <<"=">>,
          expression |-> [type |-> "integer_literal", value |-> 1]]

\* the statements a function declaration and the line closing its block make
FunctionAndRest(return_type, ps, body, closed) ==
    <<[type |-> "function_declaration", return_type |-> return_type, name |-> <<"f">>,
       parameters |-> ps,
       body |-> [k \in 1..Len(body) |-> StatementNode(body[k])]]>>
        \o (IF closed THEN <<[type |-> "identifier", value |-> <<"x">>]>> ELSE <<>>)

\* the program of the text FunctionText(return_type, ps, body, closed, d)
FunctionProgram(return_type, ps, body, closed, d) ==
    [type |-> "program",
     body |-> IF d = 0 THEN FunctionAndRest(return_type, ps, body, closed)
              ELSE <<[type |-> "if_statement",
                      expression |-> [type |-> "boolean_literal", value |-> TRUE],
                      body |-> FunctionAndRest(return_type, ps, body, closed)]>>]

\* C15: for a function header followed by an indented block of one or more
\* statements that each end in a semicolon, the block closed by a line at the
\* header's indentation or by the end of the text, parse returns one
\* function_declaration with the header's return type and name, its
\* parameters in order with their types and the block's statements in order
\* as its body, and the indent stack is back at its bottom level
C15_FunctionDeclarationShape ==
    parsed =>
        \A return_type \in {W_int, W_void}, ps \in ParamLists, body \in FunctionBodies,
           closed \in BOOLEAN, d \in 0..1 :
            text = FunctionText(return_type, ps, body, closed, d)
                => /\ error = NoErr
                   /\ tree = FunctionProgram(return_type, ps, body, closed, d)
                   /\ indent_levels = <<0>>

\* a void function of two parameters and two statements declared in the body
\* of an if, its block closed by a line of the if's body
C15_Witness ==
    /\ parsed
    /\ text = FunctionText(W_void, <<Parameter(W_int, <<"a">>), Parameter(W_str, <<"b">>)>>,
                           <<W_return \o <<SP, "1">>, <<"x">>>>, TRUE, 1)
    /\ tree.type = "program"
    /\ Len(tree.body[1].body) = 2

RECURSIVE DeclaredTypes(_)
\* the var_type of every variable_declaration node of the tree
DeclaredTypes(node) ==
    IF node.type = "variable_declaration" THEN {node.var_type}
    ELSE IF node.type \in {"program", "function_declaration", "if_statement"}
    THEN UNION {DeclaredTypes(node.body[k]) : k \in 1..Len(node.body)}
    ELSE {}

\* C16: a statement `void x` that no `(` follows is rejected with the syntax
\* error saying that void cannot be used to declare variables, and every
\* variable_declaration node of a returned tree has var_type int, float, str
\* or bool
C16_VoidDeclaresNoVariable ==
    parsed =>
        /\ \A h \in Headers, tail \in VoidTails :
               text \in {Program(h, ls) : ls \in VoidLines(tail)}
                   => /\ error.kind = "SyntaxError"
                      /\ error.msg = "Keyword 'void' cannot be used to declare variables"
        /\ DeclaredTypes(tree) \subseteq {W_int, W_float, W_str, W_bool}

\* C18: for an operand a, the texts `a - 1;`, `a -1;`, `a- 1;` and `a-1;` all
\* parse to the subtraction of 1 from a
C18_MinusAfterOperandIsBinary ==
    parsed =>
        \A a \in Operands, before \in Gaps, after \in Gaps :
            text = MinusText(a, before, after)
                => /\ error = NoErr
                   /\ tree = OneStatement(BinaryExpression(<<"-">>, OperandNode(a),
                                                           OperandNode(<<"1">>)))

\* the stream of tokens is over: end of stream was returned with the source
\* used up and no indentation level open, or an error was raised
Exhausted ==
    \/ error # NoErr
    \/ lookahead = NoneTok /\ cursor = Len(code) /\ indent_levels = <<0>>

\* C17: in every run in which the parser keeps asking for tokens, whatever
\* peeks it makes in between, the tokenizer eventually returns the end of the
\* stream or raises an error: every pass of get_next_token advances the
\* cursor, pops an indent level or ends the stream
C17_ParseTerminates == <>Exhausted

\* the end of the stream returned for three lines at indentations 0, 4 and
\* 8, after the two DEDENTs of the end of input
C17_Witness ==
    /\ text = JoinLines(<<<<"x">>, <<TAB, "x">>, <<TAB, SP, SP, SP, SP, "x">>>>)
    /\ lookahead = NoneTok
    /\ error = NoErr
    /\ cursor = Len(code)
    /\ indent_levels = <<0>>

====
